---- MODULE Spec2Model ----
(***************************************************************************)
(* Model of src/language_servers/language_server.rs: the LanguageServer    *)
(* trait, its two overridable defaults, language_server_command and        *)
(* language_server_binary, and the unit tests of the tests module.         *)
(*                                                                         *)
(* Rust values are encoded as follows.                                     *)
(*   Option<T>     None == <<>>, Some(v) == <<v>>                          *)
(*   Result<T, E>  Ok(v) == [ok |-> TRUE, v |-> v],                        *)
(*                 Err(e) == [ok |-> FALSE, e |-> e]                       *)
(*   String        a TLA+ string, format!/concat is \o                     *)
(*   Vec<T>        a sequence                                              *)
(*   serde_json::Value   a record tagged by t                              *)
(*   PathBuf       a sequence of chunks, each valid UTF-8 text or one      *)
(*                 invalid unit (what to_string_lossy replaces)            *)
(***************************************************************************)
EXTENDS Integers, Sequences, FiniteSets, TLC

VARIABLES mode, server, worktree, result, commands, use_bundler, ninstalls, tests

vars == <<mode, server, worktree, result, commands, use_bundler, ninstalls, tests>>

(* ------------------------------ bounds --------------------------------- *)

\* the number of install commands launched over a behaviour
MaxInstalls == 2
\* the longest user-supplied argument list of a settings snapshot
MaxArgLen == 1

(* --------------------------- Rust encodings ---------------------------- *)

None == <<>>
Some(v) == <<v>>
Ok(v) == [ok |-> TRUE, v |-> v]
Err(e) == [ok |-> FALSE, e |-> e]

\* Option::unwrap_or
unwrap_or(opt, default) == IF opt = None THEN default ELSE opt[1]

\* Option<Vec<_>>::unwrap_or_default
unwrap_or_default(opt) == IF opt = None THEN <<>> ELSE opt[1]

\* serde_json::Value
Null == [t |-> "null"]
Bool(b) == [t |-> "bool", b |-> b]
Str(s) == [t |-> "string", s |-> s]
Object(m) == [t |-> "object", m |-> m]

\* impl Index<&str> for Value: Null unless an object that has the key
Index(v, key) ==
    IF v.t = "object" /\ key \in DOMAIN v.m THEN v.m[key] ELSE Null

\* Value::as_bool
as_bool(v) == IF v.t = "bool" THEN Some(v.b) ELSE None

\* Option::and_then with |settings| settings["use_bundler"].as_bool()
and_then_use_bundler(opt) ==
    IF opt = None THEN None ELSE as_bool(Index(opt[1], "use_bundler"))

\* a chunk of an OS path
Utf8(s) == [utf8 |-> TRUE, s |-> s]
Invalid == [utf8 |-> FALSE, s |-> ""]
REPLACEMENT_CHARACTER == "<U+FFFD>"

\* Path::to_string_lossy().to_string()
RECURSIVE to_string_lossy(_)
to_string_lossy(p) ==
    IF p = <<>> THEN ""
    ELSE (IF Head(p).utf8 THEN Head(p).s ELSE REPLACEMENT_CHARACTER)
            \o to_string_lossy(Tail(p))

(* ------------------------- the implementing types ---------------------- *)

\* An implementing type gives the three associated constants and, in
\* overrides, the body of each provided method it overrides (None: it
\* inherits the trait's body).

\* tests::TestServer: overrides get_executable_args only
TestServer ==
    [SERVER_ID |-> "test-server", EXECUTABLE_NAME |-> "test-exe",
     GEM_NAME |-> "test",
     overrides |-> [default_use_bundler |-> None,
                    get_executable_args |-> Some(<<"--test-arg">>)]]

\* an implementor that overrides neither provided method
PlainServer ==
    [SERVER_ID |-> "solargraph", EXECUTABLE_NAME |-> "solargraph",
     GEM_NAME |-> "solargraph",
     overrides |-> [default_use_bundler |-> None,
                    get_executable_args |-> None]]

\* an implementor that overrides default_use_bundler only
NoBundlerServer ==
    [SERVER_ID |-> "ruby-lsp", EXECUTABLE_NAME |-> "ruby-lsp",
     GEM_NAME |-> "ruby-lsp",
     overrides |-> [default_use_bundler |-> Some(FALSE),
                    get_executable_args |-> None]]

ServerTypes == {TestServer, PlainServer, NoBundlerServer}

\* default_use_bundler with the trait's body returning false
default_use_bundler_flipped(T) ==
    IF T.overrides.default_use_bundler # None
    THEN T.overrides.default_use_bundler[1]
    ELSE FALSE

\* LanguageServer::default_use_bundler, dispatched on the implementing type
default_use_bundler(T) ==
    IF T.overrides.default_use_bundler # None
    THEN T.overrides.default_use_bundler[1]
    ELSE TRUE

\* LanguageServer::get_executable_args, dispatched on the implementing type
get_executable_args(T) ==
    IF T.overrides.get_executable_args # None
    THEN T.overrides.get_executable_args[1]
    ELSE <<>>

(* ------------------------------ the inputs ----------------------------- *)

ArgWords == {"--stdio"}

RECURSIVE SeqsUpTo(_, _)
SeqsUpTo(S, n) ==
    IF n = 0 THEN {<<>>}
    ELSE LET shorter == SeqsUpTo(S, n - 1)
         IN  shorter \cup {Append(s, x) : s \in shorter, x \in S}

\* Option<Vec<String>> of BinarySettings.arguments
ArgumentSettings == {None} \cup {Some(a) : a \in SeqsUpTo(ArgWords, MaxArgLen)}

\* Option<String> of BinarySettings.path
PathSettings == {None, Some("/opt/bin/server")}

\* Option<BinarySettings> of LspSettings.binary
BinarySettings ==
    {None} \cup {Some([path |-> p, arguments |-> a]) :
                    p \in PathSettings, a \in ArgumentSettings}

\* Option<serde_json::Value> of LspSettings.settings
SettingsValues ==
    {None, Some(Null), Some(Object([unrelated |-> Bool(TRUE)])),
     Some(Object([use_bundler |-> Bool(TRUE)])),
     Some(Object([use_bundler |-> Bool(FALSE)])),
     Some(Object([use_bundler |-> Str("yes")]))}

\* Result<LspSettings> of LspSettings::for_worktree
LspSettingsResults ==
    {Err("no settings for worktree")} \cup
    {Ok([binary |-> b, settings |-> s]) : b \in BinarySettings, s \in SettingsValues}

\* what worktree.which("bundle") would answer
WhichBundle == {None, Some("/usr/bin/bundle")}

\* io::Result<PathBuf> of std::env::current_dir
CurrentDirs ==
    {Err("ENOENT"), Ok(<<Utf8("/w")>>), Ok(<<Utf8("/w/"), Invalid>>)}

\* Result<Output> of Command::output for the install command
GemOutputs ==
    {Err("failed to spawn gem"),
     Ok([status |-> Some(0), stdout |-> "1 gem installed", stderr |-> ""]),
     Ok([status |-> Some(1), stdout |-> "", stderr |-> "ERROR: no such gem"])}

\* everything one call reads from outside the routine
Worktrees ==
    [lsp_settings : LspSettingsResults, which_bundle : WhichBundle,
     current_dir : CurrentDirs, gem : GemOutputs]

(* ----------------------------- the resolver ---------------------------- *)

\* lines 54-62 with every binary section taken as an override (path or not)
explicit_binary_any_section(lsp_settings) ==
    IF lsp_settings.binary # None
    THEN Some([path |-> unwrap_or(lsp_settings.binary[1].path, ""),
               args |-> lsp_settings.binary[1].arguments,
               env |-> None])
    ELSE None

\* lines 54-62 with the settings' argument list dropped
explicit_binary_no_args(lsp_settings) ==
    IF lsp_settings.binary # None /\ lsp_settings.binary[1].path # None
    THEN Some([path |-> lsp_settings.binary[1].path[1],
               args |-> None,
               env |-> None])
    ELSE None

\* language_server_binary, the early return for an explicit binary path:
\* Some(LanguageServerBinary) when it returns, None when it falls through
explicit_binary(lsp_settings) ==
    IF lsp_settings.binary # None /\ lsp_settings.binary[1].path # None
    THEN Some([path |-> lsp_settings.binary[1].path[1],
               args |-> lsp_settings.binary[1].arguments,
               env |-> None])
    ELSE None

\* language_server_binary, the local use_bundler
compute_use_bundler(T, lsp_settings) ==
    unwrap_or(and_then_use_bundler(lsp_settings.settings), default_use_bundler(T))

\* language_server_binary, the install command built on Command::new("gem")
gem_install(T, current_directory) ==
    [command |-> "gem",
     env |-> << <<"GEM_HOME", current_directory>> >>,
     args |-> <<"install", "--no-user-install", "--no-format-executable",
                "--no-document", T.GEM_NAME>>]

\* the install step with a second attempt after a failed install
install_retrying(T, w) ==
    IF ~w.current_dir.ok
    THEN [ret |-> Err("Failed to get current directory: " \o w.current_dir.e),
          commands |-> <<>>]
    ELSE LET current_directory == to_string_lossy(w.current_dir.v)
             attempt == gem_install(T, current_directory)
         IN  IF ~w.gem.ok
             THEN [ret |-> Err(w.gem.e), commands |-> <<attempt, attempt>>]
             ELSE [ret |-> Ok([path |-> current_directory \o "/bin/solargraph",
                               args |-> Some(get_executable_args(T)),
                               env |-> Some(<< <<"GEM_PATH",
                                       current_directory \o ":$GEM_PATH">> >>)]),
                   commands |-> <<attempt>>]

\* the install step going on with an empty directory when current_dir fails
install_ignoring_cwd_error(T, w) ==
    LET current_directory ==
            IF w.current_dir.ok THEN to_string_lossy(w.current_dir.v) ELSE ""
    IN  IF ~w.gem.ok
        THEN [ret |-> Err(w.gem.e),
              commands |-> <<gem_install(T, current_directory)>>]
        ELSE [ret |-> Ok([path |-> current_directory \o "/bin/solargraph",
                          args |-> Some(get_executable_args(T)),
                          env |-> Some(<< <<"GEM_PATH",
                                  current_directory \o ":$GEM_PATH">> >>)]),
              commands |-> <<gem_install(T, current_directory)>>]

\* language_server_binary from std::env::current_dir() to its last return:
\* ret is the Result<LanguageServerBinary>, commands the Command::output
\* calls made on the way
install(T, w) ==
    IF ~w.current_dir.ok
    THEN [ret |-> Err("Failed to get current directory: " \o w.current_dir.e),
          commands |-> <<>>]
    ELSE LET current_directory == to_string_lossy(w.current_dir.v)
         IN  IF ~w.gem.ok
             THEN [ret |-> Err(w.gem.e),
                   commands |-> <<gem_install(T, current_directory)>>]
             ELSE [ret |-> Ok([path |-> current_directory \o "/bin/solargraph",
                               args |-> Some(get_executable_args(T)),
                               env |-> Some(<< <<"GEM_PATH",
                                       current_directory \o ":$GEM_PATH">> >>)]),
                   commands |-> <<gem_install(T, current_directory)>>]

\* LanguageServer::language_server_binary.  use_bundler is the local of that
\* name (None while the routine has not reached its let).
language_server_binary(T, w) ==
    IF ~w.lsp_settings.ok
    THEN [ret |-> Err(w.lsp_settings.e), commands |-> <<>>, use_bundler |-> None]
    ELSE LET lsp_settings == w.lsp_settings.v
             early == explicit_binary(lsp_settings)
         IN  IF early # None
             THEN [ret |-> Ok(early[1]), commands |-> <<>>, use_bundler |-> None]
             ELSE LET rest == install(T, w)
                  IN  [ret |-> rest.ret, commands |-> rest.commands,
                       use_bundler |-> Some(compute_use_bundler(T, lsp_settings))]

\* LanguageServer::language_server_command
language_server_command(T, w) ==
    LET binary == language_server_binary(T, w)
    IN  IF ~binary.ret.ok
        THEN [ret |-> Err(binary.ret.e), commands |-> binary.commands,
              use_bundler |-> binary.use_bundler]
        ELSE [ret |-> Ok([command |-> binary.ret.v.path,
                          args |-> unwrap_or(binary.ret.v.args, get_executable_args(T)),
                          env |-> unwrap_or_default(binary.ret.v.env)]),
              commands |-> binary.commands,
              use_bundler |-> binary.use_bundler]

(* --------------------------- the state machine ------------------------- *)

TestNames == {"test_default_use_bundler", "test_default_executable_args"}

\* mode "extension": a loaded extension whose host calls
\* language_server_command; mode "test": the test binary of mod tests.
Init ==
    /\ mode \in {"extension", "test"}
    /\ server \in (IF mode = "test" THEN {TestServer} ELSE ServerTypes)
    /\ worktree = None
    /\ result = None
    /\ commands = <<>>
    /\ use_bundler = None
    /\ ninstalls = 0
    /\ tests = [n \in TestNames |-> "not run"]

\* one call of language_server_command by the host
Call ==
    /\ mode = "extension"
    /\ \E w \in Worktrees :
        \E out \in {language_server_command(server, w)} :
            /\ ninstalls + Len(out.commands) <= MaxInstalls
            /\ worktree' = Some(w)
            /\ result' = Some(out.ret)
            /\ commands' = out.commands
            /\ use_bundler' = out.use_bundler
            /\ ninstalls' = ninstalls + Len(out.commands)
    /\ UNCHANGED <<mode, server, tests>>

\* tests::test_default_use_bundler
test_default_use_bundler ==
    /\ mode = "test"
    /\ tests' = [tests EXCEPT !["test_default_use_bundler"] =
                    IF default_use_bundler(TestServer) THEN "ok" ELSE "panicked"]
    /\ UNCHANGED <<mode, server, worktree, result, commands, use_bundler, ninstalls>>

\* tests::test_default_executable_args
test_default_executable_args ==
    /\ mode = "test"
    /\ tests' = [tests EXCEPT !["test_default_executable_args"] =
                    IF get_executable_args(TestServer) = <<"--test-arg">>
                    THEN "ok" ELSE "panicked"]
    /\ UNCHANGED <<mode, server, worktree, result, commands, use_bundler, ninstalls>>

Next ==
    \/ Call
    \/ test_default_use_bundler
    \/ test_default_executable_args

Spec == Init /\ [][Next]_vars

(* ------------------------- vocabulary of the claims -------------------- *)

\* a call has been made; W is what it read, R what it returned
Called == result # None
W == worktree[1]
R == result[1]

\* the settings lookup of the last call succeeded
SettingsRead == Called /\ W.lsp_settings.ok

\* the settings snapshot of the last call sets an explicit binary path
ExplicitPath ==
    /\ SettingsRead
    /\ W.lsp_settings.v.binary # None
    /\ W.lsp_settings.v.binary[1].path # None

\* the last call went past the explicit-path step
NoExplicitPath == SettingsRead /\ ~ExplicitPath

\* the dependency-manager toggle of the last call: the local use_bundler
ToggleOn == NoExplicitPath /\ use_bundler = Some(TRUE)
ToggleOff == NoExplicitPath /\ use_bundler = Some(FALSE)

\* the directory string of the last call, when current_dir succeeded
Cwd == to_string_lossy(W.current_dir.v)

\* text around a quoted part of a message or of a variable's value
Affixes == {"", ":$GEM_PATH", "Unable to find the '", "' command."}

\* s contains sub, for the strings of this model
Contains(s, sub) == \E pre \in Affixes, suf \in Affixes : s = pre \o sub \o suf

\* the arguments a type's default argument list is expected to be
ExpectedDefaultArgs == IF server = TestServer THEN <<"--test-arg">> ELSE <<>>

\* the toggle a type is expected to default to
ExpectedDefaultToggle == IF server = NoBundlerServer THEN FALSE ELSE TRUE

(* -------------------------------- claims ------------------------------- *)

\* C1: with an explicit binary path in the settings, the call succeeds with
\* that path as the executable, the settings' arguments when given and the
\* type's default arguments otherwise, and an empty environment list.
C1_ExplicitPathUsed ==
    ExplicitPath =>
        /\ R.ok
        /\ R.v.command = W.lsp_settings.v.binary[1].path[1]
        /\ R.v.args = (IF W.lsp_settings.v.binary[1].arguments # None
                       THEN W.lsp_settings.v.binary[1].arguments[1]
                       ELSE get_executable_args(server))
        /\ R.v.env = <<>>
        /\ commands = <<>>

\* C1 witness: an explicit path with its own argument list was resolved
C1_Witness ==
    /\ ExplicitPath
    /\ W.lsp_settings.v.binary[1].arguments = Some(<<"--stdio">>)
    /\ server = TestServer
    /\ R.ok
    /\ R.v.args = <<"--stdio">>

\* C2 (as claimed): no explicit path, toggle true and bundle found at P give
\* the command P with arguments ["exec", EXECUTABLE_NAME] ++ default args.
C2_BundleExec ==
    (ToggleOn /\ W.which_bundle # None) =>
        /\ R.ok
        /\ R.v.command = W.which_bundle[1]
        /\ R.v.args = <<"exec", server.EXECUTABLE_NAME>> \o get_executable_args(server)

\* C3 (as claimed): no explicit path, toggle true and bundle not found give
\* an error naming the wrapper command and no command descriptor.
C3_BundleMissingFails ==
    (ToggleOn /\ W.which_bundle = None) =>
        /\ ~R.ok
        /\ Contains(R.e, "bundle")

\* C4 (as claimed): after an install that exits with status 0 the executable
\* is "{cwd}/bin/{EXECUTABLE_NAME}" of the implementing type, the arguments
\* are the default ones and the environment has a GEM_PATH entry with {cwd}.
C4_InstalledPath ==
    (/\ ToggleOff
     /\ W.current_dir.ok
     /\ W.gem.ok
     /\ W.gem.v.status = Some(0)) =>
        /\ R.ok
        /\ R.v.command = Cwd \o "/bin/" \o server.EXECUTABLE_NAME
        /\ R.v.args = get_executable_args(server)
        /\ \E i \in 1..Len(R.v.env) :
              R.v.env[i][1] = "GEM_PATH" /\ Contains(R.v.env[i][2], Cwd)

\* C5 (as claimed): an install that exits with a non-zero status makes the
\* call fail with an error text containing the captured standard error.
C5_InstallFailureFails ==
    (/\ ToggleOff
     /\ W.current_dir.ok
     /\ W.gem.ok
     /\ W.gem.v.status # Some(0)) =>
        /\ ~R.ok
        /\ Contains(R.e, W.gem.v.stderr)

\* C6: a type that overrides neither default has toggle true and an empty
\* argument list, a type that overrides one has its override there and the
\* trait's default for the other (TestServer: ["--test-arg"], toggle true),
\* and the resolver's fallback arguments are the type's argument list.
C6_Defaults ==
    /\ \A n \in TestNames : tests[n] # "panicked"
    /\ (/\ NoExplicitPath
        /\ and_then_use_bundler(W.lsp_settings.v.settings) = None)
            => use_bundler = Some(ExpectedDefaultToggle)
    /\ (/\ Called
        /\ R.ok
        /\ (ExplicitPath => W.lsp_settings.v.binary[1].arguments = None))
            => R.v.args = ExpectedDefaultArgs

\* C6 witness: a type without overrides resolved with both trait defaults
C6_Witness ==
    /\ server = PlainServer
    /\ NoExplicitPath
    /\ W.lsp_settings.v.settings = None
    /\ use_bundler = Some(TRUE)
    /\ R.ok
    /\ R.v.args = <<>>

\* C7 (as claimed): a call launches gem install only if no explicit path is
\* set and the toggle is false.
C7_InstallOnlyWhenToggleOff ==
    (Called /\ commands # <<>>) => ToggleOff

\* the last call reached the install step: it went past the explicit path
InstallStepReached == NoExplicitPath

\* C8 (as claimed): every call that reaches the install step launches the
\* install command exactly once, whatever the earlier calls did.
C8_ExactlyOneInstall ==
    [][InstallStepReached' =>
          (Len(commands') = 1 /\ ninstalls' = ninstalls + 1)]_vars

\* C8 (amended): every call that reaches the install step and obtains the
\* current directory launches the install command exactly once, whatever
\* the earlier calls did and whether or not the install succeeds; a call
\* whose current directory lookup fails launches none.
C8_ExactlyOneInstallWithCwd ==
    [][InstallStepReached' =>
          IF W'.current_dir.ok
          THEN /\ Len(commands') = 1
               /\ commands'[1] = gem_install(server, to_string_lossy(W'.current_dir.v))
               /\ ninstalls' = ninstalls + 1
          ELSE /\ commands' = <<>>
               /\ ninstalls' = ninstalls]_vars

\* C8 witness: a second install was launched by a call after an install
C8_Witness ==
    /\ InstallStepReached
    /\ ninstalls = 2
    /\ Len(commands) = 1
    /\ W.gem.ok

\* C9: when the install step is reached and the current directory cannot be
\* determined, the call fails with "Failed to get current directory:
\* <cause>", starts no install process and returns no command.
C9_CwdFailure ==
    (InstallStepReached /\ ~W.current_dir.ok) =>
        /\ ~R.ok
        /\ R.e = "Failed to get current directory: " \o W.current_dir.e
        /\ commands = <<>>

\* C9 witness: a call past the explicit path whose current_dir failed
C9_Witness ==
    /\ InstallStepReached
    /\ ~W.current_dir.ok
    /\ ~R.ok

\* the input of the last call with its binary section removed
WithoutBinarySection ==
    [W EXCEPT !.lsp_settings =
        Ok([binary |-> None, settings |-> W.lsp_settings.v.settings])]

\* C10: a binary section with arguments but no path is discarded: the call
\* does what it does without a binary section and a resulting command has
\* the default argument list only.
C10_ArgumentsWithoutPathDiscarded ==
    (/\ SettingsRead
     /\ W.lsp_settings.v.binary # None
     /\ W.lsp_settings.v.binary[1].path = None
     /\ W.lsp_settings.v.binary[1].arguments # None) =>
        /\ R = language_server_command(server, WithoutBinarySection).ret
        /\ commands = language_server_command(server, WithoutBinarySection).commands
        /\ R.ok => R.v.args = ExpectedDefaultArgs

\* C10 witness: arguments without a path were given and a command came back
C10_Witness ==
    /\ SettingsRead
    /\ W.lsp_settings.v.binary = Some([path |-> None, arguments |-> Some(<<"--stdio">>)])
    /\ server = TestServer
    /\ R.ok
    /\ R.v.args = <<"--test-arg">>

====
